---------------------------- MODULE Spec2Model ----------------------------
(***************************************************************************)
(* State-machine model of the two Interactive-Brokers bots of the          *)
(* repository:                                                             *)
(*    src/50_SMA.py    class Bot      (breakout above the 50-bar SMA)      *)
(*    src/VWAP_Bot.py  class VWAPBot  (mean reversion to the VWAP)         *)
(* Each script is a process of its own with its own module-level ORDER_ID; *)
(* the variable kind says which script the modelled process runs.  The     *)
(* feed thread (EClient.run) is the only caller of the callbacks, so one   *)
(* callback is one atomic step.                                            *)
(*                                                                         *)
(* Numbers.  Prices are positive integers.  Python floats are modelled by  *)
(* exact rationals: a quotient is kept as a record [n, d] and compared by  *)
(* cross multiplication; vwap_cumulative_price_volume is kept in thirds    *)
(* (typical_price = (high + low + close) / 3).  Times of the 50_SMA bot    *)
(* are seconds plus a microsecond part for the anchor, which the code      *)
(* takes from datetime.now(); times of day of the VWAP bot are seconds     *)
(* since midnight.                                                         *)
(***************************************************************************)
EXTENDS Integers, Sequences, FiniteSets, Bags, TLC

(* ------------------------------ bounds -------------------------------- *)
\* Bars the live path may append beyond the moving-average period before the
\* model stops following the run.
MaxLiveBars == 3
\* placeOrder raises only while the execution boundary has accepted fewer
\* legs than this.
MaxPlaced == 1
\* Bar closes the VWAP accumulators may absorb before the model stops
\* following the run.
MaxCumBars == 2
\* deliveries of the feed thread before the name bot is bound are followed
\* while at least sma_period - MaxLost historical bars are still to come
MaxLost == 1
\* iterations of the crossover loop that are followed
MaxIterations == 2

(* ------------------------- program constants -------------------------- *)
sma_period == 50
\* daily cap in the buy condition, self.trades_today < 3
TradeCap == 3
\* volume floor of the liquidity filter, avg_volume < 10000
VolumeFloor == 10000
\* window of the liquidity filter, self.bars[-10:]
VolumeWindow == 10
\* get_position_size: balance above which two shares are bought
BalanceTier == 5000
StartingBalance == 1000
\* reset time of day, now.hour >= 6 and now.minute >= 30
ResetHour == 6
ResetMinute == 30
\* blackout test, bar_time.hour == 9 and bar_time.minute < 45
BlackoutHour == 9
BlackoutMinute == 45
\* initial value of the module-level ORDER_ID
InitialOrderId == 1
\* src/BTC_20-50_SMA.py; amounts of BTC and of USDT are in thousandths
SHORT_SMA == 10
LONG_SMA == 50
POSITION_SIZE == 1

\* None, where a rational may stand: the record that is no quotient
NoneVal == [n |-> 0, d |-> 0]

(* ------------------------------ helpers ------------------------------- *)
RECURSIVE GCD(_, _)
GCD(a, b) == IF b = 0 THEN a ELSE GCD(b, a % b)
\* the rational n / d (n >= 0, d > 0), in lowest terms
Rat(n, d) == LET g == GCD(n, d) IN [n |-> n \div g, d |-> d \div g]
\* a < b for rationals with positive denominators
RatLess(a, b) == a.n * b.d < b.n * a.d
RatOfInt(i) == Rat(i, 1)
\* a * (p / q)
RatScale(a, p, q) == Rat(a.n * p, a.d * q)

RECURSIVE SumFrom(_, _)
SumFrom(s, i) == IF i > Len(s) THEN 0 ELSE s[i] + SumFrom(s, i + 1)
SumSeq(s) == SumFrom(s, 1)
\* the same sum for positive numbers: a function into the positive integers is
\* a bag, and the cardinality of a bag is the sum of its values
SumPositive(s) == IF s = << >> THEN 0 ELSE BagCardinality(s)

\* Python slice s[-k:]
LastK(s, k) == IF Len(s) <= k THEN s ELSE SubSeq(s, Len(s) - k + 1, Len(s))

Closes(bs) == [i \in 1..Len(bs) |-> bs[i].close]
Volumes(bs) == [i \in 1..Len(bs) |-> bs[i].volume]

\* round(x, 2) of a non-negative rational x, in cents (round half to even)
RoundCents(x) ==
    LET num == x.n * 100
        q == num \div x.d
        r2 == 2 * (num % x.d)
    IN  IF r2 < x.d THEN q
        ELSE IF r2 > x.d THEN q + 1
        ELSE IF q % 2 = 0 THEN q ELSE q + 1

(* ------------------------------- inputs ------------------------------- *)
\* price of the historical bars
HistPrice(k) == IF k = "Bot" THEN 2 ELSE 1
\* volume of a live update, and of the historical bars
FeedVolumes == {VolumeFloor}
HistVolumes(k) == IF k = "Bot" THEN {VolumeFloor} ELSE {0, VolumeFloor}
BarSizes == {1, 2}
Kinds == {"Bot", "VWAPBot"}

\* bar.date of a live update, after strptime/astimezone: seconds.
\* 50_SMA: seconds after the second in which the bot was constructed.
\* VWAP:   seconds since midnight Eastern (09:44:00, 09:45:00, 09:46:30).
BarDates(k) == IF k = "Bot" THEN {30, 60, 120, 180} ELSE {35040, 35100, 35190}

\* microsecond part of datetime.now() when the 50_SMA bot is constructed
AnchorMicros == {0, 500000}

\* The updates the feed can deliver: trades at one price (open = high = low =
\* close), or a move from one price to another within the update.
\* 50_SMA: at 1, at 2, a rise from 1 to 2.  VWAP: a drop from 3 to 2, a drop from 3 to 1.
Flat(p) == [open |-> p, high |-> p, low |-> p, close |-> p]
Shapes(k) ==
    IF k = "Bot"
    THEN { Flat(1), Flat(2), [open |-> 1, high |-> 2, low |-> 1, close |-> 2] }
    ELSE { [open |-> 3, high |-> 3, low |-> 2, close |-> 2],
           [open |-> 3, high |-> 3, low |-> 1, close |-> 1] }
Updates(k) ==
    { [date |-> d, open |-> s.open, high |-> s.high, low |-> s.low,
       close |-> s.close, volume |-> v] :
        d \in BarDates(k), s \in Shapes(k), v \in FeedVolumes }

\* The answer to reqHistoricalData: a run of flat bars, one short of the
\* moving-average period or exactly that long; the last bar of the 50_SMA
\* bot's history is one lower than the others.  The 50_SMA bot also gets a
\* full history that is flat at 1, and one at 3 that ends at 1.
HistBar(p, v) == [open |-> p, high |-> p, low |-> p, close |-> p, volume |-> v]
HistoricalFeeds(k) ==
    ( { [i \in 1..n |-> HistBar(IF k = "Bot" /\ i = n THEN HistPrice(k) - 1
                                                     ELSE HistPrice(k), v)] :
          n \in {sma_period - 1, sma_period}, v \in HistVolumes(k) }
      \ { [i \in 1..(sma_period - 1) |-> HistBar(HistPrice(k), 0)] } )
    \cup (IF k = "Bot"
          THEN { [i \in 1..sma_period |->
                    HistBar(IF i = sma_period THEN 1 ELSE p, VolumeFloor)] : p \in {1, 3} }
          ELSE { })

\* values nextValidId may carry
OrderIdSeeds == {1}

\* wall clock of the VWAP bot, datetime.now(PACIFIC_TZ): the instants at which
\* the feed thread runs a callback, in order
NowInstants ==
    << [date |-> 1, hour |-> 6, minute |-> 30],
       [date |-> 2, hour |-> 7, minute |-> 5],
       [date |-> 2, hour |-> 7, minute |-> 30] >>

(* ------------------------------- state -------------------------------- *)
VARIABLES
    kind,              \* which script this process runs
    bar_size,          \* self.bar_size
    feed,              \* historical bars requested and not yet delivered
    bars,              \* self.bars
    current_bar,       \* self.current_bar
    current_bar_date,  \* self.current_bar.date when a live update wrote it, else 0
    position_active,   \* self.position_active
    initial_bar_time,  \* Bot.initial_bar_time, [s, us]
    trades_today,      \* VWAPBot.trades_today
    last_trade_date,   \* VWAPBot.last_trade_date
    vwap_cumulative_price_volume,  \* VWAPBot, in thirds
    vwap_cumulative_volume,        \* VWAPBot
    vwap,              \* VWAPBot.vwap, a rational
    sma,               \* VWAPBot.sma, a rational or None
    account_balance,   \* VWAPBot.account_balance
    ORDER_ID,          \* module-level ORDER_ID
    clock,             \* index into NowInstants
    placed,            \* orders the execution boundary has accepted, in order
    period,            \* history: the live updates folded into current_bar
    closed_at,         \* history: bar.date of the latest bar close, 0 before it
    last,              \* history: what the latest on_bar_update did
    bot_bound,         \* the module-level name bot is bound (main, after the constructor)
    orders,            \* crossover loop: market orders the exchange has accepted
    slept,             \* crossover loop: calls of time.sleep(SLEEP_INTERVAL) so far
    cycle              \* crossover loop, history: what the latest iteration saw and did

vars == << kind, bar_size, feed, bars, current_bar, current_bar_date, position_active,
           initial_bar_time, trades_today, last_trade_date,
           vwap_cumulative_price_volume, vwap_cumulative_volume, vwap, sma,
           account_balance, ORDER_ID, clock, placed, period, closed_at, last,
           bot_bound, orders, slept, cycle >>

btc_vars == << orders, slept, cycle >>

now == NowInstants[clock]

\* Bar.__init__ (the date of a bar is never read: self.current_bar.date is
\* kept apart, in current_bar_date, and the bars of the history carry none)
Bar == [open |-> 0, high |-> 0, low |-> 0, close |-> 0, volume |-> 0]

NoPeriod == [n |-> 0, open |-> 0, high |-> 0, low |-> 0, close |-> 0]

\* history record of one call of on_bar_update:
\*   closed       the bar-boundary test fired
\*   again        ... for the bar.date of the bar close before it
\*   accumulated  the VWAP accumulators were updated
\*   sma          the moving average computed in this call, None if none was
\*   evaluated    the buy condition was evaluated
\*   signal       ... and its price conditions held
\*   legs         placeOrder calls that returned
\*   raised       a placeOrder call raised
\*   appended     a bar was appended to self.bars
Quiet == [op |-> "init", reset |-> FALSE, closed |-> FALSE, again |-> FALSE,
          accumulated |-> FALSE, sma |-> NoneVal, evaluated |-> FALSE,
          signal |-> FALSE, legs |-> 0, raised |-> FALSE, appended |-> FALSE]

(* ------------------------ indicator helpers --------------------------- *)
\* closes = [b.close for b in self.bars[-self.sma_period:]];
\* ta.trend.sma(pd.Series(closes), self.sma_period).iloc[-1]: the rolling
\* mean over a window of sma_period, read at the last row.
\* (faulty variant for C8: the sum leaves one close out)
SMA_one_short(bs) == Rat(SumPositive(Closes(LastK(bs, sma_period - 1))), sma_period)
SMA(bs) == Rat(SumPositive(Closes(LastK(bs, sma_period))), sma_period)

\* np.mean([b.volume for b in self.bars[-10:]]) if len(self.bars) >= 10 else 0
AvgVolume(bs) ==
    IF Len(bs) >= VolumeWindow
    THEN Rat(SumSeq(Volumes(LastK(bs, VolumeWindow))), VolumeWindow)
    ELSE RatOfInt(0)

\* "Update current bar": open once, high/low extended, close overwritten.
\* The sentinel of an unset field is 0.
FoldOpen(cb, bar) == IF cb.open = 0 THEN bar.open ELSE cb.open
\* (faulty variant for C5: the high follows the latest update)
FoldHigh_overwritten(cb, bar) == bar.high
FoldHigh(cb, bar) == IF cb.high = 0 \/ bar.high > cb.high THEN bar.high ELSE cb.high
\* (faulty variant for C20: the low follows the latest update)
FoldLow_overwritten(cb, bar) == bar.low
FoldLow(cb, bar) == IF cb.low = 0 \/ bar.low < cb.low THEN bar.low ELSE cb.low

\* src/50_SMA.py 174-181 (the volume is left alone)
Bot_UpdateCurrentBar(cb, bar) ==
    [cb EXCEPT !.open = FoldOpen(cb, bar), !.high = FoldHigh(cb, bar),
               !.low = FoldLow(cb, bar), !.close = bar.close]

\* src/VWAP_Bot.py 218-226
VWAPBot_UpdateCurrentBar(cb, bar) ==
    [cb EXCEPT !.open = FoldOpen(cb, bar), !.high = FoldHigh(cb, bar),
               !.low = FoldLow(cb, bar), !.close = bar.close,
               !.volume = bar.volume]

\* history: the updates of the period, folded as first / max / min / last
FoldPeriod(pd, bar) ==
    IF pd.n = 0
    THEN [n |-> 1, open |-> bar.open, high |-> bar.high, low |-> bar.low,
          close |-> bar.close]
    ELSE [n |-> 1, open |-> pd.open,
          high |-> IF bar.high > pd.high THEN bar.high ELSE pd.high,
          low |-> IF bar.low < pd.low THEN bar.low ELSE pd.low,
          close |-> bar.close]

(* ------------------------ bar-boundary tests -------------------------- *)
\* 50_SMA: minutes_diff = (bar_time - self.initial_bar_time).total_seconds() / 60.0,
\* here in microseconds
Bot_minutes_diff(bar_time, anchor) == (bar_time - anchor.s) * 1000000 - anchor.us

\* minutes_diff > 0 and minutes_diff % self.bar_size < 1e-6
\* (1e-6 minutes are 60 microseconds)
Bot_bar_closed(bar_time, anchor, size) ==
    LET minutes_diff == Bot_minutes_diff(bar_time, anchor)
    IN  minutes_diff > 0 /\ minutes_diff % (size * 60000000) < 60

\* VWAP: minutes_diff = (bar_time - midnight of bar_time's date) / 60.0, here in
\* seconds.  (datetime.combine with a pytz zone takes the zone's LMT offset,
\* which shifts the difference by a whole number of minutes that is a multiple
\* of every bar size in BarSizes, so the test below is not changed by it.)
VWAPBot_bar_closed(bar_time, size) ==
    LET minutes_diff == bar_time
    IN  minutes_diff > 0 /\ (minutes_diff % (size * 60)) * 1000000 < 60

\* bar_time.hour == 9 and bar_time.minute < 45
Blackout(bar_time) ==
    LET hour == bar_time \div 3600
        minute == (bar_time % 3600) \div 60
    IN  hour = BlackoutHour /\ minute < BlackoutMinute

(* --------------------------- buy conditions --------------------------- *)
\* 50_SMA, the price part: bar.close > last_bar.high and
\* self.current_bar.low > last_bar.low and bar.close > sma and last_bar.close < sma
\* (faulty variant for C12: the low of the current bar is not looked at)
Bot_signal_without_low(bar, cb, last_bar, smaV) ==
    /\ bar.close > last_bar.high
    /\ RatLess(smaV, RatOfInt(bar.close))
    /\ RatLess(RatOfInt(last_bar.close), smaV)

Bot_signal(bar, cb, last_bar, smaV) ==
    /\ bar.close > last_bar.high
    /\ cb.low > last_bar.low
    /\ RatLess(smaV, RatOfInt(bar.close))
    /\ RatLess(RatOfInt(last_bar.close), smaV)

\* 50_SMA: not self.position_active and <the price part>
Bot_buy(active, signal) == ~active /\ signal

\* VWAP, the price part: bar.close < self.vwap * 0.99 and bar.close > self.sma
\* (faulty variant for C11: the discount to the VWAP is not asked for)
VWAPBot_signal_without_discount(bar, vwapV, smaV) == RatLess(smaV, RatOfInt(bar.close))
VWAPBot_signal(bar, vwapV, smaV) ==
    /\ RatLess(RatOfInt(bar.close), RatScale(vwapV, 99, 100))
    /\ RatLess(smaV, RatOfInt(bar.close))

\* VWAP: not self.position_active and self.trades_today < 3 and <the price part>
\* (faulty variant for C1: the open position is not looked at)
VWAPBot_buy_ungated(active, trades, signal) == trades < TradeCap /\ signal
VWAPBot_buy(active, trades, signal) == ~active /\ trades < TradeCap /\ signal

(* --------------------------- order groups ----------------------------- *)
Unset == -1

Order(id, type, action, quantity, transmit) ==
    [orderId |-> id, orderType |-> type, action |-> action,
     totalQuantity |-> quantity, lmtPrice |-> Unset, auxPrice |-> Unset,
     trailingPercent |-> Unset, parentId |-> 0, transmit |-> transmit,
     ocaGroup |-> <<>>]

\* Bot.bracket_order; prices in cents
Bot_bracket_order(parent_order_id, action, quantity, profit_target, stop_loss) ==
    << Order(parent_order_id, "MKT", action, quantity, FALSE),
       [Order(parent_order_id + 1, "LMT", "SELL", quantity, FALSE)
           EXCEPT !.lmtPrice = RoundCents(profit_target),
                  !.parentId = parent_order_id],
       [Order(parent_order_id + 2, "STP", "SELL", quantity, TRUE)
           EXCEPT !.auxPrice = RoundCents(stop_loss),
                  !.parentId = parent_order_id] >>

\* VWAPBot.bracket_order; prices in cents
VWAPBot_bracket_order(parent_order_id, action, quantity, profit_target) ==
    << Order(parent_order_id, "MKT", action, quantity, FALSE),
       [Order(parent_order_id + 1, "LMT", "SELL", quantity, FALSE)
           EXCEPT !.lmtPrice = RoundCents(profit_target),
                  !.parentId = parent_order_id],
       [Order(parent_order_id + 2, "TRAIL", "SELL", quantity, TRUE)
           EXCEPT !.trailingPercent = 2,
                  !.parentId = parent_order_id] >>

\* oca_group = f"OCA_{ORDER_ID}"
OcaGroup(id) == << "OCA", id >>

\* for order in bracket: order.ocaGroup = oca_group; placeOrder(...).
\* raises_at = 0: every call returns; raises_at = k: the k-th call raises, so
\* the boundary has accepted the k - 1 legs before it and the loop is left.
LegsAccepted(raises_at) == IF raises_at = 0 THEN 3 ELSE raises_at - 1
Handed(bracket, oca_group, raises_at) ==
    [i \in 1..LegsAccepted(raises_at) |-> [bracket[i] EXCEPT !.ocaGroup = oca_group]]

\* VWAPBot.get_position_size
get_position_size(balance) == IF balance > BalanceTier THEN 2 ELSE 1

(* ----------------------- VWAP session state --------------------------- *)
\* the test at the top of VWAPBot.on_bar_update
ResetDue(t, ltd) ==
    /\ t.date # ltd
    /\ t.hour >= ResetHour
    /\ t.minute >= ResetMinute

\* VWAPBot.reset_vwap, on the session fields
\* (faulty variant for C9: the cumulative volume survives the reset)
reset_vwap_keeping_volume(ss, t) ==
    [ss EXCEPT !.vwap_cumulative_price_volume = 0,
               !.vwap = RatOfInt(0),
               !.trades_today = 0,
               !.last_trade_date = t.date]
reset_vwap(ss, t) ==
    [ss EXCEPT !.vwap_cumulative_price_volume = 0,
               !.vwap_cumulative_volume = 0,
               !.vwap = RatOfInt(0),
               !.trades_today = 0,
               !.last_trade_date = t.date]

\* "Update VWAP", on the session fields; price_volume in thirds
update_vwap(ss, bar) ==
    LET price_volume == (bar.high + bar.low + bar.close) * bar.volume
        cpv == ss.vwap_cumulative_price_volume + price_volume
        cv == ss.vwap_cumulative_volume + bar.volume
    IN  [ss EXCEPT !.vwap_cumulative_price_volume = cpv,
                   !.vwap_cumulative_volume = cv,
                   !.vwap = IF cv > 0 THEN Rat(cpv, 3 * cv) ELSE ss.vwap]

\* self.trades_today += 1
\* (faulty variant for C2: a submission counts double)
count_trade_twice(ss) == [ss EXCEPT !.trades_today = ss.trades_today + 2]
count_trade(ss) == [ss EXCEPT !.trades_today = ss.trades_today + 1]

Session ==
    [vwap_cumulative_price_volume |-> vwap_cumulative_price_volume,
     vwap_cumulative_volume |-> vwap_cumulative_volume,
     vwap |-> vwap, trades_today |-> trades_today,
     last_trade_date |-> last_trade_date]

SetSession(ss) ==
    /\ vwap_cumulative_price_volume' = ss.vwap_cumulative_price_volume
    /\ vwap_cumulative_volume' = ss.vwap_cumulative_volume
    /\ vwap' = ss.vwap
    /\ trades_today' = ss.trades_today
    /\ last_trade_date' = ss.last_trade_date

\* history record of one iteration of the crossover loop:
\*   df            the frame fetch_ohlcv returned: its closes, <<>> for None
\*   missing       ... and whether it was None
\*   usdt_balance, btc_balance   what get_balance returned (0 on failure)
\*   raised        an exception reached the except clause of the loop
\*   side          the side of the order the iteration asked for, "none" if none
\*   accepted      the exchange accepted that order
NoCycle == [df |-> <<>>, missing |-> FALSE, usdt_balance |-> 0, btc_balance |-> 0,
            raised |-> FALSE, side |-> "none", accepted |-> FALSE]

(* ------------------------------- Init --------------------------------- *)
Init ==
    /\ kind \in Kinds
    /\ bar_size \in BarSizes
    /\ feed \in HistoricalFeeds(kind)
    /\ bars = <<>>
    /\ current_bar = Bar
    /\ current_bar_date = 0
    /\ position_active = FALSE
    /\ initial_bar_time \in
          IF kind = "Bot" THEN [s : {0}, us : AnchorMicros] ELSE {[s |-> 0, us |-> 0]}
    /\ trades_today = 0
    /\ clock = 1
    \* initialize_trading -> reset_vwap
    /\ last_trade_date = IF kind = "VWAPBot" THEN NowInstants[clock].date ELSE 0
    /\ vwap_cumulative_price_volume = 0
    /\ vwap_cumulative_volume = 0
    /\ vwap = RatOfInt(0)
    /\ sma = NoneVal
    /\ account_balance = StartingBalance
    /\ ORDER_ID = InitialOrderId
    /\ placed = <<>>
    /\ period = NoPeriod
    /\ closed_at = 0
    /\ last = Quiet
    \* the constructor has returned from reqHistoricalData; main has not yet
    \* assigned its result to bot
    /\ bot_bound = FALSE
    /\ orders = <<>>
    /\ slept = 0
    /\ cycle = NoCycle

\* the model follows a run while its histories are within the bounds; the
\* live phase is followed on histories no shorter than the shortest feed
Followed ==
    /\ Len(bars) < sma_period + MaxLiveBars
    /\ Len(bars) >= sma_period - 1
    /\ vwap_cumulative_volume < MaxCumBars * VolumeFloor

\* the execution boundary may still raise
MayRaise == Len(placed) < MaxPlaced

(* ----------------------------- callbacks ------------------------------ *)
\* IBApi.nextValidId
nextValidId(orderId) ==
    /\ ORDER_ID' = orderId
    /\ UNCHANGED << btc_vars, bot_bound, kind, bar_size, feed, bars, current_bar, current_bar_date,
                    position_active,
                    initial_bar_time, trades_today, last_trade_date,
                    vwap_cumulative_price_volume, vwap_cumulative_volume, vwap,
                    sma, account_balance, clock, placed, period, closed_at, last >>

\* time passes between two callbacks of the VWAP bot
Tick ==
    /\ kind = "VWAPBot"
    /\ \E c \in (clock + 1)..Len(NowInstants) : clock' = c
    /\ UNCHANGED << btc_vars, bot_bound, kind, bar_size, feed, bars, current_bar, current_bar_date,
                    position_active,
                    initial_bar_time, trades_today, last_trade_date,
                    vwap_cumulative_price_volume, vwap_cumulative_volume, vwap,
                    sma, account_balance, ORDER_ID, placed, period, closed_at,
                    last >>

\* faulty variant: the historical bar also goes through the live fold
Bot_on_bar_update_historical_folded ==
    /\ kind = "Bot"
    /\ feed # <<>>
    /\ bot_bound
    /\ bars' = Append(bars, Head(feed))
    /\ current_bar' = Bot_UpdateCurrentBar(current_bar, Head(feed))
    /\ feed' = Tail(feed)
    /\ last' = [Quiet EXCEPT !.op = "historical", !.appended = TRUE]
    /\ UNCHANGED << btc_vars, bot_bound, kind, bar_size, current_bar_date, position_active,
                    initial_bar_time, trades_today, last_trade_date,
                    vwap_cumulative_price_volume, vwap_cumulative_volume, vwap,
                    sma, account_balance, ORDER_ID, clock, placed, period,
                    closed_at >>

\* Bot.on_bar_update(reqId, bar, False), called from IBApi.historicalData
Bot_on_bar_update_historical ==
    /\ kind = "Bot"
    /\ feed # <<>>
    /\ bot_bound
    /\ bars' = Append(bars, Head(feed))
    /\ feed' = Tail(feed)
    /\ last' = [Quiet EXCEPT !.op = "historical", !.appended = TRUE]
    /\ UNCHANGED << btc_vars, bot_bound, kind, bar_size, current_bar, current_bar_date, position_active,
                    initial_bar_time, trades_today, last_trade_date,
                    vwap_cumulative_price_volume, vwap_cumulative_volume, vwap,
                    sma, account_balance, ORDER_ID, clock, placed, period,
                    closed_at >>

\* Bot.on_bar_update(reqId, bar, True), called from IBApi.historicalDataUpdate
Bot_on_bar_update_live(bar, raises_at) ==
    LET bar_time == bar.date
        cb == Bot_UpdateCurrentBar(current_bar, bar)
        closed == Bot_bar_closed(bar_time, initial_bar_time, bar_size)
        avail == closed /\ Len(bars) >= sma_period
        smaV == SMA(bars)
        last_bar == bars[Len(bars)]
        signal == avail /\ Bot_signal(bar, cb, last_bar, smaV)
        buy == avail /\ Bot_buy(position_active, signal)
        profit_target == Rat(bar.close * 102, 100)
        stop_loss == Rat(bar.close * 99, 100)
        bracket == Bot_bracket_order(ORDER_ID, "BUY", 1, profit_target, stop_loss)
        raised == buy /\ raises_at # 0
        append == closed /\ ~raised
    IN  /\ kind = "Bot"
        /\ feed = <<>>
        /\ bot_bound
        /\ Followed
        /\ raises_at = 0 \/ (MayRaise /\ buy)
        /\ initial_bar_time' = IF closed THEN [s |-> bar_time, us |-> 0]
                               ELSE initial_bar_time
        /\ placed' = IF buy THEN placed \o Handed(bracket, OcaGroup(ORDER_ID), raises_at)
                     ELSE placed
        /\ ORDER_ID' = IF buy /\ ~raised THEN ORDER_ID + 3 ELSE ORDER_ID
        /\ position_active' = IF buy /\ ~raised THEN TRUE ELSE position_active
        /\ bars' = IF append THEN Append(bars, cb) ELSE bars
        /\ current_bar' = IF append THEN Bar ELSE cb
        /\ current_bar_date' = IF append THEN 0 ELSE bar_time
        /\ period' = IF append THEN NoPeriod ELSE FoldPeriod(period, bar)
        /\ closed_at' = IF closed THEN bar_time ELSE closed_at
        /\ last' = [Quiet EXCEPT !.op = "live", !.closed = closed,
                       !.again = closed /\ bar_time = closed_at,
                       !.sma = IF avail THEN smaV ELSE NoneVal,
                       !.evaluated = avail, !.signal = signal,
                       !.legs = IF buy THEN LegsAccepted(raises_at) ELSE 0,
                       !.raised = raised, !.appended = append]
        /\ UNCHANGED << btc_vars, bot_bound, kind, bar_size, feed, trades_today, last_trade_date,
                        vwap_cumulative_price_volume, vwap_cumulative_volume,
                        vwap, sma, account_balance, clock >>

\* VWAPBot.on_bar_update(reqId, bar, False), called from IBApi.historicalData
VWAPBot_on_bar_update_historical ==
    LET due == ResetDue(now, last_trade_date)
    IN  /\ kind = "VWAPBot"
        /\ feed # <<>>
        /\ bot_bound
            /\ SetSession(IF due THEN reset_vwap(Session, now) ELSE Session)
        /\ bars' = Append(bars, Head(feed))
        /\ feed' = Tail(feed)
        /\ last' = [Quiet EXCEPT !.op = "historical", !.reset = due, !.appended = TRUE]
        /\ UNCHANGED << btc_vars, bot_bound, kind, bar_size, current_bar, current_bar_date,
                        position_active, initial_bar_time, sma, account_balance, ORDER_ID, clock,
                        placed, period, closed_at >>

\* VWAPBot.on_bar_update(reqId, bar, True), called from IBApi.historicalDataUpdate
VWAPBot_on_bar_update_live(bar, raises_at) ==
    LET due == ResetDue(now, last_trade_date)
        ss0 == IF due THEN reset_vwap(Session, now) ELSE Session
        bar_time == bar.date
        cb == VWAPBot_UpdateCurrentBar(current_bar, bar)
        closed == VWAPBot_bar_closed(bar_time, bar_size)
        \* "Skip first 15 minutes": return
        accumulate == closed /\ ~Blackout(bar_time)
        ss1 == IF accumulate THEN update_vwap(ss0, bar) ELSE ss0
        avail == accumulate /\ Len(bars) >= sma_period
        smaV == SMA(bars)
        \* "Skipping trade: Average volume too low": return
        lowvol == avail /\ RatLess(AvgVolume(bars), RatOfInt(VolumeFloor))
        evaluated == avail /\ ~lowvol
        signal == evaluated /\ VWAPBot_signal(bar, ss1.vwap, smaV)
        buy == evaluated /\ VWAPBot_buy(position_active, ss1.trades_today, signal)
        quantity == get_position_size(account_balance)
        profit_target == RatScale(ss1.vwap, 101, 100)
        bracket == VWAPBot_bracket_order(ORDER_ID, "BUY", quantity, profit_target)
        raised == buy /\ raises_at # 0
        append == accumulate /\ ~lowvol /\ ~raised
    IN  /\ kind = "VWAPBot"
        /\ feed = <<>>
        /\ bot_bound
        /\ Followed
        /\ raises_at = 0 \/ (MayRaise /\ buy)
        /\ SetSession(IF buy /\ ~raised THEN count_trade(ss1) ELSE ss1)
        /\ sma' = IF avail THEN smaV ELSE sma
        /\ placed' = IF buy THEN placed \o Handed(bracket, OcaGroup(ORDER_ID), raises_at)
                     ELSE placed
        /\ ORDER_ID' = IF buy /\ ~raised THEN ORDER_ID + 3 ELSE ORDER_ID
        /\ position_active' = IF buy /\ ~raised THEN TRUE ELSE position_active
        /\ bars' = IF append THEN Append(bars, cb) ELSE bars
        /\ current_bar' = IF append THEN Bar ELSE cb
        /\ current_bar_date' = IF append THEN 0 ELSE bar_time
        /\ period' = IF append THEN NoPeriod ELSE FoldPeriod(period, bar)
        /\ closed_at' = IF closed THEN bar_time ELSE closed_at
        /\ last' = [Quiet EXCEPT !.op = "live", !.reset = due, !.closed = closed,
                       !.again = closed /\ bar_time = closed_at,
                       !.accumulated = accumulate,
                       !.sma = IF avail THEN smaV ELSE NoneVal,
                       !.evaluated = evaluated, !.signal = signal,
                       !.legs = IF buy THEN LegsAccepted(raises_at) ELSE 0,
                       !.raised = raised, !.appended = append]
        /\ UNCHANGED << btc_vars, bot_bound, kind, bar_size, feed, initial_bar_time, account_balance, clock >>

\* __main__: bot = Bot() / bot = VWAPBot(); the name is bound when the
\* constructor, whose last statement requests the historical data, returns
main_binds_bot ==
    /\ ~bot_bound
    /\ bot_bound' = TRUE
    /\ UNCHANGED << btc_vars, kind, bar_size, feed, bars, current_bar, current_bar_date,
                    position_active, initial_bar_time, trades_today,
                    last_trade_date, vwap_cumulative_price_volume,
                    vwap_cumulative_volume, vwap, sma, account_balance, ORDER_ID,
                    clock, placed, period, closed_at, last >>

\* IBApi.historicalData on the feed thread while the name bot is unbound:
\* the bar is stored in self.data (which nothing reads and the model leaves
\* out), bot.on_bar_update raises NameError, which the callback's except
\* clause logs.  (A live update delivered in that
\* window changes no state at all.)
historicalData_unbound ==
    /\ ~bot_bound
    /\ feed # <<>>
    /\ Len(feed) >= sma_period - MaxLost
    /\ feed' = Tail(feed)
    /\ UNCHANGED << btc_vars, bot_bound, kind, bar_size, bars, current_bar, current_bar_date,
                    position_active, initial_bar_time, trades_today,
                    last_trade_date, vwap_cumulative_price_volume,
                    vwap_cumulative_volume, vwap, sma, account_balance, ORDER_ID,
                    clock, placed, period, closed_at, last >>

\* one call of on_bar_update, of either bot
Bot_on_bar_update ==
    \/ Bot_on_bar_update_historical
    \/ \E bar \in Updates("Bot"), raises_at \in 0..3 : Bot_on_bar_update_live(bar, raises_at)
VWAPBot_on_bar_update ==
    \/ VWAPBot_on_bar_update_historical
    \/ \E bar \in Updates("VWAPBot"), raises_at \in 0..3 :
          VWAPBot_on_bar_update_live(bar, raises_at)

Next ==
    \/ \E orderId \in OrderIdSeeds : nextValidId(orderId)
    \/ Tick
    \/ main_binds_bot
    \/ historicalData_unbound
    \/ Bot_on_bar_update
    \/ VWAPBot_on_bar_update

Spec == Init /\ [][Next]_vars

(* ------------------- src/BTC_20-50_SMA.py: the loop ------------------- *)
\* closes of the frames the exchange may return: flat at 3 but for the last
\* two rows; 49, 50 or 51 rows (limit = LONG_SMA + 1)
FlatClose == 3
LastCloses == {1, 4, 6}
FrameLengths == {LONG_SMA - 1, LONG_SMA, LONG_SMA + 1}
Frames ==
    { [i \in 1..n |-> IF i = n THEN z ELSE IF i = n - 1 THEN y ELSE FlatClose] :
        n \in FrameLengths, y \in LastCloses, z \in LastCloses }
UsdtBalances == {0, 6, 7}
BtcBalances == {0, 1}

\* df['close'].rolling(window).mean() at row i, as the sum of the window;
\* NaN (here -1) in the first window - 1 rows
rolling_sum(closes, window, i) ==
    IF i < window THEN -1
    ELSE SumPositive([j \in 1..window |-> closes[i - window + j]])

\* calculate_sma: df['signal'] at row i; a comparison with NaN is False
signal(closes, i) ==
    LET short_sum == rolling_sum(closes, SHORT_SMA, i)
        long_sum == rolling_sum(closes, LONG_SMA, i)
    IN  IF short_sum = -1 \/ long_sum = -1 THEN 0
        ELSE IF short_sum * LONG_SMA < long_sum * SHORT_SMA THEN -1
        ELSE IF short_sum * LONG_SMA > long_sum * SHORT_SMA THEN 1
        ELSE 0

\* calculate_sma: df['position'] = df['signal'].diff(), at the latest row
position(closes) ==
    LET n == Len(closes) IN signal(closes, n) - signal(closes, n - 1)

\* main: the two trade conditions
\* (faulty variant for C23: the buy does not look at the balance)
BTC_buy_unfunded(pos, usdt_balance, close) == pos = 2
BTC_buy(pos, usdt_balance, close) ==
    pos = 2 /\ usdt_balance > POSITION_SIZE * close
BTC_sell(pos, btc_balance) ==
    pos = -2 /\ btc_balance >= POSITION_SIZE

\* the state of the two bots in a process that runs the crossover loop
NoBot ==
    /\ bar_size = 1
    /\ feed = <<>>
    /\ bars = <<>>
    /\ current_bar = Bar
    /\ current_bar_date = 0
    /\ position_active = FALSE
    /\ initial_bar_time = [s |-> 0, us |-> 0]
    /\ trades_today = 0
    /\ clock = 1
    /\ last_trade_date = 0
    /\ vwap_cumulative_price_volume = 0
    /\ vwap_cumulative_volume = 0
    /\ vwap = RatOfInt(0)
    /\ sma = NoneVal
    /\ account_balance = StartingBalance
    /\ ORDER_ID = InitialOrderId
    /\ placed = <<>>
    /\ period = NoPeriod
    /\ closed_at = 0
    /\ last = Quiet
    /\ bot_bound = FALSE

InitBTC ==
    /\ kind = "BTC"
    /\ NoBot
    /\ orders = <<>>
    /\ slept = 0
    /\ cycle = NoCycle

\* one iteration of `while True` in main, up to and including its sleep.
\*   missing       fetch_ohlcv returned None
\*   raises        an exception escapes to the except clause of the loop
\*                 before the trade conditions are reached
\*   order_fails   the exchange call in place_order raises (place_order
\*                 logs it and returns None)
main_iteration(df, missing, usdt_balance, btc_balance, raises, order_fails) ==
    LET insufficient == missing \/ Len(df) < LONG_SMA
        reached == ~insufficient /\ ~raises
        pos == position(df)
        close == df[Len(df)]
        buy == reached /\ BTC_buy(pos, usdt_balance, close)
        \* elif: reached only when position is not 2
        sell == reached /\ pos # 2 /\ BTC_sell(pos, btc_balance)
        side == IF buy THEN "buy" ELSE IF sell THEN "sell" ELSE "none"
        accepted == side # "none" /\ ~order_fails
    IN  /\ kind = "BTC"
        /\ slept < MaxIterations
        /\ missing => (df = <<>> /\ ~raises)
        /\ insufficient => (~raises /\ usdt_balance = 0 /\ btc_balance = 0)
        /\ raises => (usdt_balance = 0 /\ btc_balance = 0)
        /\ order_fails => side # "none"
        /\ orders' = IF accepted
                     THEN Append(orders, [side |-> side, amount |-> POSITION_SIZE])
                     ELSE orders
        /\ slept' = slept + 1
        /\ cycle' = [df |-> df, missing |-> missing,
                     usdt_balance |-> usdt_balance, btc_balance |-> btc_balance,
                     raised |-> raises, side |-> side, accepted |-> accepted]
        /\ UNCHANGED << kind, bar_size, feed, bars, current_bar, current_bar_date,
                        position_active, initial_bar_time, trades_today,
                        last_trade_date, vwap_cumulative_price_volume,
                        vwap_cumulative_volume, vwap, sma, account_balance,
                        ORDER_ID, clock, placed, period, closed_at, last,
                        bot_bound >>

NextBTC ==
    \E df \in Frames \cup {<<>>}, missing \in BOOLEAN,
       usdt_balance \in UsdtBalances, btc_balance \in BtcBalances,
       raises \in BOOLEAN, order_fails \in BOOLEAN :
          main_iteration(df, missing, usdt_balance, btc_balance, raises, order_fails)

SpecBTC == InitBTC /\ [][NextBTC]_vars

(* ====================================================================== *)
(*                              Properties                                *)
(* ====================================================================== *)

\* ids the execution boundary has been handed so far
PlacedIds == { placed[i].orderId : i \in 1..Len(placed) }

\* the step hands orders to the execution boundary
Submits == placed' # placed

(* C1.  In both bots, no order group is handed to the execution boundary
   (placeOrder) by an update that is processed while position_active is
   true: a step that starts with position_active leaves the orders the
   boundary has received as they are. *)
C1_NoOrderWhilePositionActive == [][position_active => ~Submits]_vars

\* an update whose price conditions held was processed with a position open,
\* and handed nothing over
C1_SignalWhilePositionActive ==
    /\ position_active
    /\ last.op = "live" /\ last.signal
    /\ last.legs = 0 /\ ~last.raised

\* the step performs the daily reset: reset_vwap alone writes last_trade_date,
\* and the reset test lets it run only with a date other than the one stored
ResetStep == last_trade_date' # last_trade_date

(* C2.  In the VWAP bot trades_today never exceeds the daily cap of 3; it
   changes only by +1 in a step that hands an order group over, or to 0 in
   a step that performs the daily reset; and no order group is submitted by
   an update processed while trades_today is 3 or more: such a step hands
   nothing over, and the buy condition is false for every count at or
   above the cap. *)
C2_TradesTodayWithinCap ==
    /\ [](kind = "VWAPBot" =>
            /\ trades_today <= TradeCap
            /\ \A t \in TradeCap..(TradeCap + 1), a \in BOOLEAN, sg \in BOOLEAN :
                  ~VWAPBot_buy(a, t, sg))
    /\ [][kind = "VWAPBot" =>
            /\ trades_today' # trades_today =>
                  \/ trades_today' = trades_today + 1 /\ Submits
                  \/ trades_today' = 0 /\ ResetStep
            /\ trades_today >= TradeCap => ~Submits]_vars

\* a submission has been counted, and a later daily reset has cleared the count
C2_CountedThenReset ==
    /\ kind = "VWAPBot"
    /\ placed # << >>
    /\ last.reset
    /\ trades_today = 0

(* C3.  The order-id counter is never reused or reset mid-session: once
   the first order has been handed over, ORDER_ID never decreases, and
   every order id passed to placeOrder differs from every id passed to it
   earlier in the session. *)
C3_OrderIdsNeverReused ==
    [][/\ placed # << >> => ORDER_ID' >= ORDER_ID
       /\ \A i \in (Len(placed) + 1)..Len(placed') :
             /\ placed'[i].orderId \notin PlacedIds
             /\ \A j \in (Len(placed) + 1)..(i - 1) :
                   placed'[j].orderId # placed'[i].orderId]_vars

(* C4.  Every submission hands exactly three legs to the execution
   boundary, in the order entry, target, stop, with order ids p, p+1, p+2
   where p is the counter at submission; all three carry the same
   one-cancels-all group derived from p; entry and target have transmit
   false and only the stop leg has transmit true; and the counter then
   advances by exactly 3. *)
C4_SubmissionIsOneGroupOfThree ==
    [][Submits =>
          /\ Len(placed') = Len(placed) + 3
          /\ SubSeq(placed', 1, Len(placed)) = placed
          /\ LET p == ORDER_ID
                 entry == placed'[Len(placed) + 1]
                 target == placed'[Len(placed) + 2]
                 stop == placed'[Len(placed) + 3]
             IN  /\ entry.orderId = p /\ entry.orderType = "MKT"
                 /\ target.orderId = p + 1 /\ target.orderType = "LMT"
                 /\ stop.orderId = p + 2 /\ stop.orderType \in {"STP", "TRAIL"}
                 /\ entry.ocaGroup = OcaGroup(p)
                 /\ target.ocaGroup = OcaGroup(p)
                 /\ stop.ocaGroup = OcaGroup(p)
                 /\ ~entry.transmit /\ ~target.transmit /\ stop.transmit
          /\ ORDER_ID' = ORDER_ID + 3]_vars

(* C5.  For every sequence of live updates within one bar period, starting
   from a fresh in-progress bar and with positive prices, the in-progress
   bar's open is the first update's open, its high the maximum of the
   updates' highs, its low the minimum of their lows and its close the last
   update's close. *)
C5_InProgressBarAggregates ==
    period.n > 0 =>
        /\ current_bar.open = period.open
        /\ current_bar.high = period.high
        /\ current_bar.low = period.low
        /\ current_bar.close = period.close

\* a period of several updates: high above low, back at the open
C5_PeriodOfSeveralUpdates ==
    /\ period.n > 0
    /\ current_bar.open = current_bar.high
    /\ current_bar.close = current_bar.high
    /\ current_bar.low < current_bar.high

(* C6.  Every time the bar-boundary test fires for a live update, the
   in-progress bar is appended to the bar history and replaced by a fresh
   empty bar, and in the VWAP bot the accumulators have been updated, also
   when the blackout window or the low-liquidity filter suppresses the
   entry evaluation. *)
C6_EveryCloseAppendsAndAccumulates ==
    (last.op = "live" /\ last.closed) =>
        /\ last.appended
        /\ current_bar = Bar
        /\ kind = "VWAPBot" => last.accumulated

(* C7.  There is at most one bar-close event for each bar period, also when
   several live updates carry the same boundary timestamp: an update whose
   timestamp is that of the bar close before it appends nothing to the
   history, accumulates nothing into the VWAP and evaluates no entry
   condition. *)
C7_OneCloseEventPerPeriod ==
    (last.op = "live" /\ last.again) =>
        ~(last.appended \/ last.accumulated \/ last.evaluated)

\* the history the latest update was processed with
HistoryBefore == IF last.appended THEN SubSeq(bars, 1, Len(bars) - 1) ELSE bars

(* C8.  The moving average is unavailable whenever the bar history holds
   fewer than sma_period (50) bars, and then the bar close produces no
   entry decision and hands no order over; otherwise the SMA used for the
   decision is the arithmetic mean of the close of the last sma_period bars
   of the history. *)
C8_SMAOverLastPeriod ==
    last.op = "live" =>
        LET history == HistoryBefore
            n == Len(history)
        IN  /\ n < sma_period =>
                  /\ last.sma = NoneVal
                  /\ ~last.evaluated /\ ~last.signal
                  /\ last.legs = 0 /\ ~last.raised
            /\ last.evaluated => last.sma # NoneVal
            /\ last.sma # NoneVal =>
                  /\ n >= sma_period
                  /\ last.sma.n * sma_period =
                        last.sma.d * SumSeq([i \in 1..sma_period |->
                                               history[n - sma_period + i].close])
                  /\ kind = "VWAPBot" => sma = last.sma

\* an entry decision taken with more than sma_period bars in the history
C8_DecisionOverLongerHistory ==
    /\ last.op = "live" /\ last.evaluated
    /\ Len(HistoryBefore) > sma_period

(* C9.  In the VWAP bot the cumulative price-volume and the cumulative
   volume never decrease between two daily resets, and they are set to
   (0, 0) at the daily reset and by no other step: a step that lowers
   either one, or brings them to (0, 0), is a reset step, and a reset step
   leaves (0, 0), or what the one bar close of the same update adds to
   (0, 0). *)
C9_AccumulatorsMonotoneBetweenResets ==
    [][kind = "VWAPBot" =>
          /\ ~ResetStep =>
                /\ vwap_cumulative_price_volume' >= vwap_cumulative_price_volume
                /\ vwap_cumulative_volume' >= vwap_cumulative_volume
                /\ (vwap_cumulative_price_volume' = 0 /\ vwap_cumulative_volume' = 0)
                      => (vwap_cumulative_price_volume = 0 /\ vwap_cumulative_volume = 0)
          /\ ResetStep =>
                IF last'.accumulated
                THEN \E bar \in Updates("VWAPBot") :
                        /\ vwap_cumulative_price_volume' =
                              (bar.high + bar.low + bar.close) * bar.volume
                        /\ vwap_cumulative_volume' = bar.volume
                ELSE /\ vwap_cumulative_price_volume' = 0
                     /\ vwap_cumulative_volume' = 0]_vars

\* a session that had accumulated (an order was submitted on its VWAP) has
\* been reset to (0, 0)
C9_ResetAfterAccumulation ==
    /\ kind = "VWAPBot"
    /\ placed # << >>
    /\ last.reset /\ ~last.accumulated
    /\ vwap_cumulative_price_volume = 0
    /\ vwap_cumulative_volume = 0

\* the local time t is at or after the configured reset time of day
AtOrAfterResetTime(t) == t.hour * 60 + t.minute >= ResetHour * 60 + ResetMinute

\* the step processes an update
UpdateStep == last' # last \/ bars' # bars \/ current_bar' # current_bar

(* C10.  In the VWAP bot the daily reset is performed by the first update
   processed at a local time at or after the reset time of day (06:30) on a
   date other than last_trade_date, for every such time of day; after it
   last_trade_date is today, so that no further reset happens that day. *)
C10_ResetByFirstUpdateAfterResetTime ==
    [][kind = "VWAPBot" =>
          /\ (UpdateStep /\ now.date # last_trade_date /\ AtOrAfterResetTime(now))
                => (ResetStep /\ last_trade_date' = now.date)
          /\ ResetStep => last_trade_date' = now.date
          /\ (UpdateStep /\ now.date = last_trade_date) => ~ResetStep]_vars

\* the step is one call of on_bar_update with a live update, so that the
\* history record last' describes this step
LiveStep == last'.op = "live" /\ clock' = clock /\ (ORDER_ID' = ORDER_ID \/ Submits)

\* the step enters the submission of an order group: placeOrder is called
SubmissionEntered == Submits \/ last'.raised

\* the bar that the bar close of the step completes
CompletedBar == IF last'.appended THEN bars'[Len(bars')] ELSE current_bar'

\* sum of field f over the last k bars of the history bs
SumClose(bs, k) == SumSeq([i \in 1..k |-> bs[Len(bs) - k + i].close])
SumVolume(bs, k) == SumSeq([i \in 1..k |-> bs[Len(bs) - k + i].volume])

\* the orders the step hands over
NewOrders == { placed'[i] : i \in (Len(placed) + 1)..Len(placed') }

(* C11.  Mean-reversion policy of the VWAP bot: at a bar close with at
   least sma_period bars of history, the submission of an order group is
   entered if and only if position_active is false, trades_today < 3,
   close < VWAP * 0.99, close > SMA, the bar time is outside the blackout
   window (hour 9, minute below 45) and the average volume of the last 10
   history bars is at least 10000; the target leg's limit price is
   VWAP * 1.01 rounded to cents, and the quantity is 2 when the account
   balance is above 5000 and 1 otherwise. *)
C11_MeanReversionPolicy ==
    /\ [](get_position_size(5001) = 2 /\ get_position_size(5000) = 1)
    /\ [][(kind = "VWAPBot" /\ LiveStep /\ last'.closed /\ Len(bars) >= sma_period) =>
            LET close == CompletedBar.close
                bar_time == closed_at'
                blackout == bar_time \div 3600 = 9 /\ (bar_time % 3600) \div 60 < 45
                enter == /\ ~position_active
                         /\ trades_today < 3
                         /\ close * 100 * vwap'.d < 99 * vwap'.n
                         /\ close * sma_period > SumClose(bars, sma_period)
                         /\ ~blackout
                         /\ SumVolume(bars, 10) >= 10000 * 10
            IN  /\ SubmissionEntered <=> enter
                /\ \A o \in NewOrders :
                      /\ o.totalQuantity = IF account_balance > 5000 THEN 2 ELSE 1
                      /\ o.orderType = "LMT" =>
                            \* |lmtPrice - 101 * vwap| <= 1/2, in cents
                            /\ 2 * (o.lmtPrice * vwap'.d - 101 * vwap'.n) <= vwap'.d
                            /\ 2 * (101 * vwap'.n - o.lmtPrice * vwap'.d) <= vwap'.d]_vars

\* the VWAP bot has handed a whole order group over
C11_GroupSubmittedByVWAPBot ==
    /\ kind = "VWAPBot"
    /\ last.op = "live" /\ last.legs = 3
    /\ position_active /\ trades_today = 1

(* C12.  Breakout policy of the 50_SMA bot: at a bar close with at least
   sma_period bars of history, the submission of an order group is entered
   if and only if position_active is false, the current bar's close is
   above the previous bar's high, the current bar's low is above the
   previous bar's low, the close is above the SMA and the previous bar's
   close is below the SMA; the previous bar is the last bar of the history
   and the current bar is the bar being completed. *)
C12_BreakoutPolicy ==
    [][(kind = "Bot" /\ LiveStep /\ last'.closed /\ Len(bars) >= sma_period) =>
          LET cur == CompletedBar
              prev == bars[Len(bars)]
              enter == /\ ~position_active
                       /\ cur.close > prev.high
                       /\ cur.low > prev.low
                       /\ cur.close * sma_period > SumClose(bars, sma_period)
                       /\ prev.close * sma_period < SumClose(bars, sma_period)
          IN  SubmissionEntered <=> enter]_vars

\* the 50_SMA bot has handed a whole order group over
C12_GroupSubmittedByBot ==
    /\ kind = "Bot"
    /\ last.op = "live" /\ last.legs = 3
    /\ position_active

\* timestamp of the live update before the step (0: there was none), and of
\* the live update the step processes
PrevDate == IF current_bar_date # 0 THEN current_bar_date ELSE closed_at
NewDate == IF last'.appended THEN closed_at' ELSE current_bar_date'

\* number of the bar period the timestamp t lies in: periods of bar_size
\* minutes, counted from the anchor (50_SMA) or from midnight (VWAP)
PeriodOf(t) ==
    IF kind = "Bot"
    THEN ((t - initial_bar_time.s) * 1000000 - initial_bar_time.us)
            \div (bar_size * 60000000)
    ELSE t \div (bar_size * 60)

(* C13.  A completed bar is emitted whenever a duration boundary is
   crossed: when the timestamps of two consecutive live updates lie on
   opposite sides of a period boundary, the later update fires the bar
   close, also when no update carries a timestamp that is an exact multiple
   of the bar duration from the anchor. *)
C13_CloseWheneverBoundaryCrossed ==
    [][(LiveStep /\ PrevDate # 0 /\ PrevDate < NewDate
           /\ PeriodOf(PrevDate) < PeriodOf(NewDate))
          => last'.closed]_vars

(* C14.  When a live update crosses the bar boundary, the bar that is
   finalized and pushed to the history holds only the updates received
   before the triggering update: it is the in-progress bar as it stood
   before the step; and the new in-progress bar is seeded by the triggering
   update instead of being left empty: its open, high, low and close are
   set. *)
C14_TriggeringUpdateSeedsNextBar ==
    [][(LiveStep /\ last'.appended /\ period.n > 0) =>
          /\ bars'[Len(bars')] = current_bar
          /\ current_bar'.open # 0 /\ current_bar'.high # 0
          /\ current_bar'.low # 0 /\ current_bar'.close # 0]_vars

(* C15.  At each bar close of the VWAP bot the numerator grows by
   ((high + low + close) / 3) * volume and the denominator by volume, where
   high, low, close and volume are those of the newly completed aggregated
   bar, not of the single triggering update; and in every reachable state
   vwap is numerator / denominator when the denominator is positive and 0
   when it is 0.  (The numerator is kept in thirds.) *)
C15_VWAPOverCompletedBars ==
    /\ [](kind = "VWAPBot" =>
            IF vwap_cumulative_volume > 0
            THEN vwap.n * 3 * vwap_cumulative_volume
                    = vwap.d * vwap_cumulative_price_volume
            ELSE vwap.n = 0)
    /\ [][(kind = "VWAPBot" /\ LiveStep /\ last'.accumulated) =>
            LET b == CompletedBar
                numerator == IF ResetStep THEN 0 ELSE vwap_cumulative_price_volume
                denominator == IF ResetStep THEN 0 ELSE vwap_cumulative_volume
            IN  /\ vwap_cumulative_price_volume'
                      = numerator + (b.high + b.low + b.close) * b.volume
                /\ vwap_cumulative_volume' = denominator + b.volume]_vars

(* C16.  At the daily reset the whole session state is reset to zero/false:
   after a step of the VWAP bot that resets, and that neither accumulates a
   bar nor enters a submission afterwards, trades_today = 0, position_active
   is false and both VWAP accumulators are 0. *)
C16_ResetClearsSessionState ==
    [][(kind = "VWAPBot" /\ ResetStep /\ ~last'.accumulated /\ ~SubmissionEntered) =>
          /\ trades_today' = 0
          /\ ~position_active'
          /\ vwap_cumulative_price_volume' = 0
          /\ vwap_cumulative_volume' = 0]_vars

(* C17.  If placeOrder raises on any of the three legs while an order group
   is being submitted, the local state is left as submitted when the
   handler returns: position_active is true, the VWAP bot has counted the
   trade, and the order-id counter has advanced past the three ids, so that
   every id handed to the execution boundary in the step lies below the
   counter and no later signal can hand it over again. *)
C17_FailedSubmissionLeftAsSubmitted ==
    [][(LiveStep /\ last'.raised) =>
          /\ position_active'
          /\ ORDER_ID' = ORDER_ID + 3
          /\ \A o \in NewOrders : o.orderId < ORDER_ID'
          /\ kind = "VWAPBot" =>
                trades_today' = (IF ResetStep THEN 0 ELSE trades_today) + 1]_vars

(* C18.  A malformed live update is discarded.  For the malformation that
   the feeds here produce, a timestamp that lies in a period earlier than
   that of the in-progress bar: the update leaves the in-progress bar, the
   bar history, the period anchor, the VWAP accumulators and the position
   state unchanged (a daily reset in the same call apart). *)
C18_MalformedUpdateDiscarded ==
    [][(LiveStep /\ ~ResetStep /\ current_bar_date # 0
           /\ PeriodOf(NewDate) < PeriodOf(current_bar_date)) =>
          /\ current_bar' = current_bar
          /\ bars' = bars
          /\ initial_bar_time' = initial_bar_time
          /\ vwap_cumulative_price_volume' = vwap_cumulative_price_volume
          /\ vwap_cumulative_volume' = vwap_cumulative_volume
          /\ position_active' = position_active]_vars

HistoricalStep == last'.op = "historical" /\ feed' # feed

(* C19.  A historical update appends exactly that one bar to the end of
   the bar history and bypasses the live path: the in-progress bar, the
   period anchor, position_active, trades_today, the VWAP accumulators and
   the order-id counter are unchanged and no order is submitted. *)
C19_HistoricalUpdateOnlyAppends ==
    [][HistoricalStep =>
          /\ bars' = Append(bars, Head(feed))
          /\ current_bar' = current_bar
          /\ current_bar_date' = current_bar_date
          /\ initial_bar_time' = initial_bar_time
          /\ position_active' = position_active
          /\ trades_today' = trades_today
          /\ vwap_cumulative_price_volume' = vwap_cumulative_price_volume
          /\ vwap_cumulative_volume' = vwap_cumulative_volume
          /\ ORDER_ID' = ORDER_ID
          /\ placed' = placed]_vars

\* a historical update of the VWAP bot that ran the daily reset on its way
C19_HistoricalUpdateWithReset ==
    /\ kind = "VWAPBot" /\ last.op = "historical" /\ last.reset
    /\ Len(bars) > 1 /\ placed = <<>>

WellFormed(b) ==
    /\ b.high >= b.open /\ b.high >= b.close
    /\ b.low <= b.open /\ b.low <= b.close
    /\ b.volume >= 0

(* C20.  The in-progress bar in every reachable state, and every bar of the
   history, those produced by live aggregation included, has
   high >= max(open, close), low <= min(open, close) and volume >= 0; the
   updates fed in satisfy the same inequalities with positive prices. *)
C20_BarsWellFormed ==
    /\ WellFormed(current_bar)
    /\ \A i \in 1..Len(bars) : WellFormed(bars[i])

\* a bar with a range was produced by live aggregation and appended
C20_AggregatedBarWithRange ==
    /\ last.op = "live" /\ last.appended
    /\ Len(bars) > sma_period
    /\ bars[Len(bars)].high > bars[Len(bars)].low
    /\ bars[Len(bars)].open # bars[Len(bars)].close

(* C21.  position_active is monotone: no step, the daily reset of the VWAP
   bot included, takes it from true to false; consequently a bot submits at
   most one order group in its lifetime, so that the execution boundary is
   handed at most the three orders of one group, and trades_today never
   exceeds 1. *)
C21_AtMostOneGroupEver ==
    /\ [][position_active => position_active']_vars
    /\ [](trades_today <= 1)
    /\ [](Len(placed) <= 3)

(* C22.  Every historical bar the feed thread delivers is appended to the
   bar history, in delivery order, under every interleaving of the feed
   thread's callbacks with the main thread that has not yet bound the name
   bot: each delivery puts the delivered bar at the end of the history, so
   that no delivered bar is lost. *)
C22_NoDeliveredBarLost ==
    [][feed' # feed => bars' = Append(bars, Head(feed))]_vars

IterationStep == slept' # slept

(* C23.  Every iteration of the crossover loop places at most one market
   order: a buy only if the position value of the latest row is 2 and the
   free USDT balance strictly exceeds POSITION_SIZE times the latest close,
   a sell only if the position value is -2 and the free BTC balance is at
   least POSITION_SIZE; an iteration whose data is missing or has fewer
   than LONG_SMA rows places none; and every iteration, whatever failed in
   it, sleeps once and leaves the loop at its next iteration. *)
C23_CrossoverLoopPolicy ==
    [][IterationStep =>
          LET c == cycle'
              placed_one == orders' # orders
              o == orders'[Len(orders')]
              latest_close == c.df[Len(c.df)]
          IN  /\ slept' = slept + 1
              /\ \/ orders' = orders
                 \/ /\ Len(orders') = Len(orders) + 1
                    /\ SubSeq(orders', 1, Len(orders)) = orders
              /\ placed_one =>
                    /\ o.amount = POSITION_SIZE
                    /\ o.side \in {"buy", "sell"}
                    /\ o.side = "buy" =>
                          /\ position(c.df) = 2
                          /\ c.usdt_balance > POSITION_SIZE * latest_close
                    /\ o.side = "sell" =>
                          /\ position(c.df) = -2
                          /\ c.btc_balance >= POSITION_SIZE
              /\ (c.missing \/ Len(c.df) < LONG_SMA \/ c.raised) => ~placed_one]_vars

\* a buy in one iteration and a sell in the next, both accepted
C23_BuyThenSell ==
    /\ kind = "BTC" /\ slept = 2
    /\ Len(orders) = 2 /\ orders[1].side = "buy" /\ orders[2].side = "sell"
    /\ cycle.accepted

=============================================================================
